---------------------------- MODULE Spec2Model ----------------------------
(***************************************************************************)
(* Model of the caching and performance-instrumentation layer of           *)
(* f1-analytics: utils/caching.py (CacheEntry, SmartCache, cached) and     *)
(* utils/performance.py (PerformanceMonitor, monitor_performance).         *)
(*                                                                         *)
(* Time is counted in ticks of the clock, a TTL in the same unit.  `now`   *)
(* is the latest reading handed out by the clock; a handler that reads the *)
(* clock twice may see it advance between the two readings.  A Python dict *)
(* is a sequence of [key, entry] items in insertion order, the order `min` *)
(* iterates in.  Calls to the logger are left out.                         *)
(***************************************************************************)
EXTENDS Integers, Sequences, FiniteSets, TLC

VARIABLES
    now,       \* latest clock reading (datetime.now() / time.time())
    caches,    \* SmartCache instances: id -> [max_size, default_ttl, cache, hits, misses]
    monitor,   \* the process-wide PerformanceMonitor
    last,      \* what the latest step was, what it saw and what it returned
    scen,      \* progress along the LRU scenario of the test suite
    horizon,   \* the reading at which the modelled clock stops
    comp,      \* how the wrapped operation is decorated
    call_count,\* executions of the wrapped operation so far
    derived,   \* the two latest results of _generate_key
    operation_name, \* the argument monitor_performance was given
    submitted, \* the records handed to record_metric since the log was last empty
    threads    \* threads in SmartCache.get: where each is and what it holds

vars == <<now, caches, monitor, last, scen, horizon, comp, call_count, derived,
          operation_name, submitted, threads>>

\* what the SmartCache and clock steps leave alone
wrapvars == <<horizon, comp, call_count, derived, operation_name, submitted, threads>>

-----------------------------------------------------------------------------
(* Bounds of the model *)

MaxTime == 1        \* Spec: the clock stops at this reading
MaxGets == 1        \* Spec: gets made, counted by the monitor as hits + misses
MaxTimeLRU == 4     \* SpecLRU: the clock stops at this reading
MaxTimeMulti == 1   \* SpecMulti: the clock stops at this reading
MaxGetsMulti == 2   \* SpecMulti: gets made
MaxArgs == 1        \* SpecKey: positional arguments of a call
MaxTimeWrap == 1    \* SpecWrap: the clock stops at this reading
MaxCalls == 3       \* SpecWrap: cache reads plus executions of the operation
MaxTimeMon == 2     \* SpecMonWrap: the clock stops at this reading
MaxCallsMon == 2    \* SpecMonWrap: executions of the operation
MaxRecords == 3     \* SpecMon: records handed to record_metric since the last clear
MaxCountsMon == 1   \* SpecMon: cache hits plus misses counted
MaxLimit == 3       \* SpecMon: the limit asked of get_slowest_operations
MaxCounts == 4      \* SpecRate: cache hits plus misses counted
MaxGetsConc == 2    \* SpecConc: gets made on each cache
MaxTimeSink == 1    \* SpecSink: the clock stops at this reading
MaxGetsSink == 2    \* SpecSink: gets counted by the monitor
MaxCallsSink == 1   \* SpecSink: executions of the operation

Sizes == {0, 1, 2}

\* defaults of the constructors
DefaultMaxSize == 1000
DefaultMaxMetrics == 1000

Keys == {"k1", "k2", "k3"}
LRUKeys == {"k1", "k2", "k3", "k4"}
MultiKeys == {"k1"}
Values == {"v1", "v2"}

-----------------------------------------------------------------------------
(* Python values *)

\* None as a returned or stored value
None == "None"

\* Optional[int] TTL: None, or a number of seconds
NoTTL == [isNone |-> TRUE, secs |-> 0]
Secs(n) == [isNone |-> FALSE, secs |-> n]
TTLs == {NoTTL, Secs(0)}

\* The readings a second look at the clock can give after reading t
Later(t) == {u \in {t, t + 1} : u <= horizon}

-----------------------------------------------------------------------------
(* dict in insertion order *)

Has(d, k) == \E i \in 1..Len(d) : d[i].key = k

IndexOf(d, k) == CHOOSE i \in 1..Len(d) : d[i].key = k

Lookup(d, k) == d[IndexOf(d, k)].entry

RemoveAt(d, i) == [j \in 1..(Len(d) - 1) |-> IF j < i THEN d[j] ELSE d[j + 1]]

\* del d[k]
DictDel(d, k) == RemoveAt(d, IndexOf(d, k))

\* d[k] = e : an existing key keeps its place, a new key goes last
DictPut(d, k, e) ==
    IF Has(d, k)
    THEN [d EXCEPT ![IndexOf(d, k)] = [key |-> k, entry |-> e]]
    ELSE Append(d, [key |-> k, entry |-> e])

KeysOf(d) == {d[i].key : i \in 1..Len(d)}

-----------------------------------------------------------------------------
(* CacheEntry *)

\* CacheEntry.__init__: two readings of the clock, t1 then t2
CacheEntry(value, ttl_seconds, t1, t2) ==
    [value |-> value, created_at |-> t1, ttl_seconds |-> ttl_seconds,
     access_count |-> 0, last_accessed |-> t2]

\* variant: expired as soon as the age reaches the TTL
is_expired_ge(entry, t) ==
    IF entry.ttl_seconds.isNone
    THEN FALSE
    ELSE (t - entry.created_at) >= entry.ttl_seconds.secs

\* CacheEntry.is_expired, the clock reading t
is_expired(entry, t) ==
    IF entry.ttl_seconds.isNone
    THEN FALSE
    ELSE (t - entry.created_at) > entry.ttl_seconds.secs

\* variant: a read that restarts the entry's life (a sliding TTL)
access_sliding(entry, t) ==
    [entry EXCEPT !.access_count = @ + 1, !.last_accessed = t, !.created_at = t]

\* variant: a read that counts the access twice
access_counted_twice(entry, t) ==
    [entry EXCEPT !.access_count = @ + 2, !.last_accessed = t]

\* variant: a read that counts the access and leaves last_accessed alone
access_no_touch(entry, t) == [entry EXCEPT !.access_count = @ + 1]

\* CacheEntry.access, the clock reading t (the value returned is entry.value)
access(entry, t) ==
    [entry EXCEPT !.access_count = @ + 1, !.last_accessed = t]

-----------------------------------------------------------------------------
(* SmartCache *)

\* SmartCache.__init__
SmartCache(max_size, default_ttl) ==
    [max_size |-> max_size, default_ttl |-> default_ttl, cache |-> <<>>,
     hits |-> 0, misses |-> 0]

\* variant: the item put in the dict first, whatever its last access
LruIndex_first(d) == 1

\* variant: the item created first makes room, whatever its last access
LruIndex_created(d) ==
    CHOOSE i \in 1..Len(d) :
        /\ \A j \in 1..Len(d) : d[i].entry.created_at <= d[j].entry.created_at
        /\ \A j \in 1..(i - 1) : d[j].entry.created_at > d[i].entry.created_at

\* min(self.cache.keys(), key=last_accessed): the first minimal item
LruIndex(d) ==
    CHOOSE i \in 1..Len(d) :
        /\ \A j \in 1..Len(d) : d[i].entry.last_accessed <= d[j].entry.last_accessed
        /\ \A j \in 1..(i - 1) : d[j].entry.last_accessed > d[i].entry.last_accessed

\* SmartCache._evict_lru on the dict d
evict_lru(d) == IF d = <<>> THEN d ELSE RemoveAt(d, LruIndex(d))

\* variant: set makes room only when the dict is over capacity
set_cache_gt(self, key, value, ttl_seconds, t1, t2) ==
    LET actual_ttl == IF ~ttl_seconds.isNone THEN ttl_seconds ELSE self.default_ttl
        room == IF Len(self.cache) > self.max_size
                THEN evict_lru(self.cache)
                ELSE self.cache
    IN  DictPut(room, key, CacheEntry(value, actual_ttl, t1, t2))

\* variant: the default TTL taken whenever the given one is None or 0
set_cache_ttl_or_default(self, key, value, ttl_seconds, t1, t2) ==
    LET actual_ttl == IF ~ttl_seconds.isNone /\ ttl_seconds.secs # 0
                      THEN ttl_seconds
                      ELSE self.default_ttl
        room == IF Len(self.cache) >= self.max_size
                THEN evict_lru(self.cache)
                ELSE self.cache
    IN  DictPut(room, key, CacheEntry(value, actual_ttl, t1, t2))

\* the dict after SmartCache.set(key, value, ttl_seconds), clock readings t1, t2
set_cache(self, key, value, ttl_seconds, t1, t2) ==
    LET actual_ttl == IF ~ttl_seconds.isNone THEN ttl_seconds ELSE self.default_ttl
        room == IF Len(self.cache) >= self.max_size
                THEN evict_lru(self.cache)
                ELSE self.cache
    IN  DictPut(room, key, CacheEntry(value, actual_ttl, t1, t2))

\* variant: a miss the monitor does not count
record_cache_miss_lost(m) == m

\* PerformanceMonitor.record_cache_hit / record_cache_miss
record_cache_hit(m) == [m EXCEPT !.cache_hits = @ + 1]
record_cache_miss(m) == [m EXCEPT !.cache_misses = @ + 1]

\* PerformanceMonitor.__init__
PerformanceMonitor(max_metrics) ==
    [metrics |-> <<>>, max_metrics |-> max_metrics, cache_hits |-> 0,
     cache_misses |-> 0]

-----------------------------------------------------------------------------
(* Ghost state: the latest call and the LRU scenario *)

\* what the wrapped operation does when it runs: returns value, or raises
Returns(value) == [raised |-> FALSE, value |-> value]
Raises(msg) == [raised |-> TRUE, value |-> msg]

NoCall ==
    [op |-> "none", c |-> "", key |-> "", ret |-> None, present |-> FALSE,
     full |-> FALSE, expired |-> FALSE, at |-> 0, hit |-> FALSE,
     raised |-> FALSE, ran |-> 0, func |-> Returns(None), badarg |-> FALSE,
     args |-> <<>>, kwargs |-> <<>>, arg |-> None, limit |-> 0,
     num |-> [n |-> 0, d |-> 1], list |-> <<>>, counted |-> 0,
     value |-> None, ttl |-> NoTTL, accesses |-> 0]

Called(op, c, key, ret, present, full, expired, at) ==
    [NoCall EXCEPT !.op = op, !.c = c, !.key = key, !.ret = ret,
                   !.present = present, !.full = full, !.expired = expired,
                   !.at = at, !.hit = (op = "get" /\ present /\ ~expired)]

\* tests/test_performance.py, test_smart_cache_lru_eviction: the calls in order
Scenario ==
    << <<"set", "k1">>, <<"set", "k2">>, <<"set", "k3">>, <<"get", "k1">>,
       <<"set", "k4">> >>

ScenOff == [n |-> -1, t |-> 0]

\* one more call of the scenario, made at a reading later than the call before
\* it ended at (t0 is the reading the call starts at, t1 the one it ends at)
ScenStep(op, k, plain, t0, t1) ==
    IF /\ scen.n >= 0
       /\ scen.n < Len(Scenario)
       /\ plain
       /\ Scenario[scen.n + 1] = <<op, k>>
       /\ (scen.n = 0 \/ t0 > scen.t)
    THEN [n |-> scen.n + 1, t |-> t1]
    ELSE ScenOff

-----------------------------------------------------------------------------
(* SmartCache operations *)

\* variant: get that counts the miss and keeps the expired entry
cache_get_keep(self, m, key, t0, t1) ==
    IF ~Has(self.cache, key)
    THEN [self |-> [self EXCEPT !.misses = @ + 1], mon |-> record_cache_miss(m),
          ret |-> None, present |-> FALSE, expired |-> FALSE]
    ELSE LET entry == Lookup(self.cache, key) IN
         IF is_expired(entry, t0)
         THEN [self |-> [self EXCEPT !.misses = @ + 1],
               mon |-> record_cache_miss(m),
               ret |-> None, present |-> TRUE, expired |-> TRUE]
         ELSE [self |-> [self EXCEPT !.cache = DictPut(@, key, access(entry, t1)),
                                     !.hits = @ + 1],
               mon |-> record_cache_hit(m),
               ret |-> entry.value, present |-> TRUE, expired |-> FALSE]

\* SmartCache.get(key) on the cache self, reporting to the monitor m; the
\* clock reads t0 in is_expired and t1 in access
cache_get(self, m, key, t0, t1) ==
    IF ~Has(self.cache, key)
    THEN [self |-> [self EXCEPT !.misses = @ + 1], mon |-> record_cache_miss(m),
          ret |-> None, present |-> FALSE, expired |-> FALSE]
    ELSE LET entry == Lookup(self.cache, key) IN
         IF is_expired(entry, t0)
         THEN [self |-> [self EXCEPT !.cache = DictDel(@, key), !.misses = @ + 1],
               mon |-> record_cache_miss(m),
               ret |-> None, present |-> TRUE, expired |-> TRUE]
         ELSE [self |-> [self EXCEPT !.cache = DictPut(@, key, access(entry, t1)),
                                     !.hits = @ + 1],
               mon |-> record_cache_hit(m),
               ret |-> entry.value, present |-> TRUE, expired |-> FALSE]

\* SmartCache.set(key, value, ttl_seconds) on the cache self
cache_set(self, key, value, ttl_seconds, t1, t2) ==
    [self EXCEPT !.cache = set_cache(self, key, value, ttl_seconds, t1, t2)]

\* a call of SmartCache.get(key) on instance c
Get(c, key) ==
    \E t \in Later(now) :
        LET r == cache_get(caches[c], monitor, key, now, t)
            hit == r.present /\ ~r.expired
        IN  /\ hit \/ t = now
            /\ caches' = [caches EXCEPT ![c] = r.self]
            /\ monitor' = r.mon
            /\ now' = t
            /\ last' = [Called("get", c, key, r.ret, r.present, FALSE, r.expired, now)
                           EXCEPT !.accesses = IF r.present
                                               THEN Lookup(caches[c].cache, key).access_count
                                               ELSE 0]
            /\ scen' = IF hit THEN ScenStep("get", key, TRUE, now, t) ELSE ScenOff
            /\ UNCHANGED wrapvars

\* a call of SmartCache.set(key, value, ttl_seconds) on instance c
Set(c, key, value, ttl_seconds) ==
    LET self == caches[c] IN
    \E t \in Later(now) :
        /\ caches' = [caches EXCEPT
               ![c] = cache_set(self, key, value, ttl_seconds, now, t)]
        /\ now' = t
        /\ last' = [Called("set", c, key, None, Has(self.cache, key),
                           Len(self.cache) >= self.max_size,
                           /\ Len(self.cache) >= self.max_size
                           /\ self.cache # <<>>
                           /\ is_expired(self.cache[LruIndex(self.cache)].entry, now),
                           now)
                       EXCEPT !.value = value, !.ttl = ttl_seconds]
        /\ scen' = ScenStep("set", key,
                            ttl_seconds.isNone /\ self.default_ttl.isNone, now, t)
        /\ UNCHANGED <<monitor, wrapvars>>

\* variant: a clear that zeroes the monitor's counters along with its own
Clear_with_monitor(c) ==
    /\ caches' = [caches EXCEPT ![c].cache = <<>>, ![c].hits = 0, ![c].misses = 0]
    /\ monitor' = [monitor EXCEPT !.cache_hits = 0, !.cache_misses = 0]
    /\ last' = Called("clear", c, "", None, FALSE, FALSE, FALSE, now)
    /\ scen' = ScenOff
    /\ UNCHANGED <<now, wrapvars>>

\* SmartCache.clear() on instance c
Clear(c) ==
    /\ caches' = [caches EXCEPT ![c].cache = <<>>, ![c].hits = 0, ![c].misses = 0]
    /\ last' = Called("clear", c, "", None, FALSE, FALSE, FALSE, now)
    /\ scen' = ScenOff
    /\ UNCHANGED <<now, monitor, wrapvars>>

\* what SmartCache.get_stats() returns (the formatted hit_rate left out)
get_stats(self) ==
    [size |-> Len(self.cache), max_size |-> self.max_size, hits |-> self.hits,
     misses |-> self.misses, total_accesses |-> self.hits + self.misses]

\* SmartCache.get_stats() on instance c: reads, changes nothing
GetStats(c) ==
    /\ last' = Called("get_stats", c, "", None, FALSE, FALSE, FALSE, now)
    /\ scen' = ScenOff
    /\ UNCHANGED <<now, caches, monitor, wrapvars>>

\* time passes between calls
Tick ==
    /\ now < horizon
    /\ now' = now + 1
    /\ last' = [NoCall EXCEPT !.op = "tick"]
    /\ UNCHANGED <<caches, monitor, scen, wrapvars>>

GetsMade == monitor.cache_hits + monitor.cache_misses

\* no operation is wrapped, no key derived
NoWrapper ==
    /\ comp = "none"
    /\ call_count = 0
    /\ derived = <<>>
    /\ operation_name = None
    /\ submitted = <<>>
    /\ threads = <<>>

-----------------------------------------------------------------------------
(* Spec: one cache, constructed with any max_size and any default TTL *)

Init ==
    /\ now = 0
    /\ horizon = MaxTime
    /\ NoWrapper
    /\ \E n \in Sizes, d \in TTLs :
           caches = [c \in {"c1"} |-> SmartCache(n, d)]
    /\ monitor = PerformanceMonitor(DefaultMaxMetrics)
    /\ last = NoCall
    /\ scen = ScenOff

Next ==
    \/ Tick
    \/ /\ GetsMade < MaxGets
       /\ \E c \in DOMAIN caches, k \in Keys : Get(c, k)
    \/ \E c \in DOMAIN caches, k \in Keys, v \in Values, ttl \in TTLs :
           Set(c, k, v, ttl)
    \/ \E c \in DOMAIN caches : Clear(c)

Spec == Init /\ [][Next]_vars

-----------------------------------------------------------------------------
(* SpecLRU: SmartCache(max_size=3), no expiry; the calls of the LRU test in *)
(* order, at any clock readings, and any one call that departs from them    *)

InitLRU ==
    /\ now = 0
    /\ horizon = MaxTimeLRU
    /\ NoWrapper
    /\ caches = [c \in {"c1"} |-> SmartCache(3, NoTTL)]
    /\ monitor = PerformanceMonitor(DefaultMaxMetrics)
    /\ last = NoCall
    /\ scen = [n |-> 0, t |-> 0]

NextLRU ==
    \/ Tick
    \/ /\ scen.n >= 0
       /\ \E k \in LRUKeys : Get("c1", k)
    \/ /\ scen.n >= 0
       /\ \E k \in LRUKeys : Set("c1", k, "v1", NoTTL)

SpecLRU == InitLRU /\ [][NextLRU]_vars

-----------------------------------------------------------------------------
(* SpecMulti: two independent caches reporting to the one monitor *)

InitMulti ==
    /\ now = 0
    /\ horizon = MaxTimeMulti
    /\ NoWrapper
    /\ \E d \in TTLs :
           caches = [c \in {"c1", "c2"} |-> SmartCache(1, d)]
    /\ monitor = PerformanceMonitor(DefaultMaxMetrics)
    /\ last = NoCall
    /\ scen = ScenOff

NextMulti ==
    \/ Tick
    \/ /\ GetsMade < MaxGetsMulti
       /\ \E c \in DOMAIN caches, k \in MultiKeys : Get(c, k)
    \/ \E c \in DOMAIN caches, k \in MultiKeys, ttl \in TTLs : Set(c, k, "v1", ttl)
    \/ \E c \in DOMAIN caches : Clear(c)
    \/ \E c \in DOMAIN caches : GetStats(c)

SpecMulti == InitMulti /\ [][NextMulti]_vars

-----------------------------------------------------------------------------
(* Arguments of a wrapped call and _generate_key *)

\* Python values by type and string form; str() of an "obj" raises
Int1 == [ty |-> "int", s |-> "1"]
Str1 == [ty |-> "str", s |-> "1"]
Str2 == [ty |-> "str", s |-> "2"]
Bad == [ty |-> "obj", s |-> ""]

ArgVals == {Int1, Str1, Bad}
KwVals == {Int1, Str2}

\* keyword names, in the order Python sorts them
KwNames == <<"a", "b">>

StrFails(v) == v.ty = "obj"
str(v) == v.s

Kw(k, v) == [k |-> k, v |-> v]

\* variant: the keyword items in the order they were passed
sorted_items_unsorted(kwargs) == kwargs

\* sorted(kwargs.items()): the items by ascending name (names are unique)
sorted_items(kwargs) ==
    LET passed == SelectSeq(KwNames, LAMBDA n : \E i \in 1..Len(kwargs) : kwargs[i].k = n)
    IN  [j \in 1..Len(passed) |->
            kwargs[CHOOSE i \in 1..Len(kwargs) : kwargs[i].k = passed[j]]]

RECURSIVE join(_)
\* "|".join(parts)
join(parts) ==
    IF parts = <<>> THEN ""
    ELSE IF Len(parts) = 1 THEN parts[1]
    ELSE parts[1] \o "|" \o join(Tail(parts))

\* hashlib.md5(...).hexdigest(), taken to be free of collisions
md5(text) == "md5:" \o text

\* SmartCache._generate_key(*args, **kwargs): None when a str() raises
generate_key(args, kwargs) ==
    IF \/ \E i \in 1..Len(args) : StrFails(args[i])
       \/ \E i \in 1..Len(kwargs) : StrFails(kwargs[i].v)
    THEN None
    ELSE LET items == sorted_items(kwargs)
             key_parts ==
                 [i \in 1..Len(args) |-> str(args[i])]
                 \o [i \in 1..Len(items) |-> items[i].k \o "=" \o str(items[i].v)]
         IN  md5(join(key_parts))

\* a call of _generate_key; the two latest results are kept
Derive(args, kwargs) ==
    /\ derived' = LET result == [args |-> args, kwargs |-> kwargs,
                                 key |-> generate_key(args, kwargs)]
                  IN  IF Len(derived) < 2
                      THEN Append(derived, result)
                      ELSE <<derived[2], result>>
    /\ last' = [NoCall EXCEPT !.op = "generate_key"]
    /\ UNCHANGED <<now, caches, monitor, scen, horizon, comp, call_count,
                    operation_name, submitted, threads>>

\* the positional argument lists of at most n values
ArgLists(n) == UNION {[1..m -> ArgVals] : m \in 0..n}

\* the keyword arguments, in every order they can be passed in
KwLists ==
    {<<>>}
    \cup {<<Kw(n, v)>> : n \in {"a", "b"}, v \in KwVals}
    \cup {<<Kw("a", v), Kw("b", w)>> : v \in KwVals, w \in KwVals}
    \cup {<<Kw("b", w), Kw("a", v)>> : v \in KwVals, w \in KwVals}

-----------------------------------------------------------------------------
(* PerformanceMonitor.record_metric and the two decorators *)

\* PerformanceMetric(name, operation, duration_ms, timestamp, success, error_msg)
PerformanceMetric(operation, duration_ms, timestamp, success, error_msg) ==
    [name |-> "module", operation |-> operation, duration_ms |-> duration_ms,
     timestamp |-> timestamp, success |-> success, error_msg |-> error_msg]

\* the Python slice s[-n:] for n >= 0 (s[-0:] is all of s)
SliceLast(s, n) ==
    IF n = 0 \/ n >= Len(s) THEN s ELSE SubSeq(s, Len(s) - n + 1, Len(s))

\* variant: a full log that keeps its oldest records and drops the new one
record_metric_keep_oldest(m, metric) ==
    LET appended == Append(m.metrics, metric)
    IN  [m EXCEPT !.metrics = IF Len(appended) > m.max_metrics
                              THEN SubSeq(appended, 1, m.max_metrics)
                              ELSE appended]

\* PerformanceMonitor.record_metric
record_metric(m, metric) ==
    LET appended == Append(m.metrics, metric)
    IN  [m EXCEPT !.metrics = IF Len(appended) > m.max_metrics
                              THEN SliceLast(appended, m.max_metrics)
                              ELSE appended]

\* the name of the wrapped operation, func.__name__
FuncName == "f"

\* bool(s) of an Optional[str]
Truthy(s) == s # None /\ s # ""

\* variant: the function's name only when no name was given at all
op_name_not_none == IF operation_name # None THEN operation_name ELSE FuncName

\* monitor_performance.decorator: op_name = operation_name or func.__name__
op_name == IF Truthy(operation_name) THEN operation_name ELSE FuncName

\* The state a wrapped call works on: the clock, the wrapper's own cache, the
\* monitor and the executions counted so far.  A call yields the state it
\* leaves, the value returned and whether it raised instead.
Outcome(st, ret, raised) == [st |-> st, ret |-> ret, raised |-> raised]

\* the wrapped operation itself: it runs until the clock reads tE; what a
\* call that raised yields is the text of the failure
func(st, does, tE) ==
    Outcome([st EXCEPT !.call_count = @ + 1, !.now = tE], does.value, does.raised)

\* variant: a wrapper that records every call as a success
monitored_as_success(t0, r) ==
    LET duration_ms == (r.st.now - t0) * 1000
        metric == PerformanceMetric(op_name, duration_ms, r.st.now, TRUE, None)
    IN  [r EXCEPT !.st.mon = record_metric(@, metric)]

\* monitor_performance(operation_name): wrapper, around the call r of the
\* operation that started at reading t0
monitored(t0, r) ==
    LET duration_ms == (r.st.now - t0) * 1000
        metric == IF r.raised
                  THEN PerformanceMetric(op_name, duration_ms, r.st.now, FALSE, r.ret)
                  ELSE PerformanceMetric(op_name, duration_ms, r.st.now, TRUE, None)
    IN  [r EXCEPT !.st.mon = record_metric(@, metric)]

\* the operation as cached's wrapper calls it: bare, or under monitor_performance
inner(st, instrumented, does, tE) ==
    IF instrumented
    THEN monitored(st.now, func(st, does, tE))
    ELSE func(st, does, tE)

\* variant: a wrapper that looks a failed key up like any other
cached_wrapper_no_bypass(st, instrumented, args, kwargs, does, tG, tE, tS) ==
    LET key == generate_key(args, kwargs)
        got == cache_get(st.self, st.mon, key, st.now, tG)
        hit == got.present /\ ~got.expired
        st1 == [st EXCEPT !.self = got.self, !.mon = got.mon,
                          !.now = IF hit THEN tG ELSE @]
    IN  IF got.ret # None
        THEN Outcome(st1, got.ret, FALSE)
        ELSE LET r == inner(st1, instrumented, does, tE)
             IN  IF r.raised
                 THEN r
                 ELSE [r EXCEPT
                         !.st.self = cache_set(@, key, r.ret, NoTTL, r.st.now, tS),
                         !.st.now = tS]

\* cached(ttl_seconds): wrapper(*args, **kwargs).  The clock reads tG in
\* CacheEntry.access, tE when the operation ends, tS at the end of set.
cached_wrapper(st, instrumented, args, kwargs, does, tG, tE, tS) ==
    LET key == generate_key(args, kwargs) IN
    IF key = None
    THEN inner(st, instrumented, does, tE)
    ELSE LET got == cache_get(st.self, st.mon, key, st.now, tG)
             hit == got.present /\ ~got.expired
             st1 == [st EXCEPT !.self = got.self, !.mon = got.mon,
                               !.now = IF hit THEN tG ELSE @]
         IN  IF got.ret # None
             THEN Outcome(st1, got.ret, FALSE)
             ELSE LET r == inner(st1, instrumented, does, tE)
                  IN  IF r.raised
                      THEN r
                      ELSE [r EXCEPT
                              !.st.self = cache_set(@, key, r.ret, NoTTL, r.st.now, tS),
                              !.st.now = tS]

\* the decorated operation, by the way it is decorated:
\*   "monitor"         @monitor_performance
\*   "cached"          @cached
\*   "monitor_cached"  @monitor_performance over @cached
\*   "cached_monitor"  @cached over @monitor_performance
decorated(st, how, args, kwargs, does, tG, tE, tS) ==
    IF how = "monitor"
    THEN inner(st, TRUE, does, tE)
    ELSE IF how = "monitor_cached"
    THEN monitored(st.now, cached_wrapper(st, FALSE, args, kwargs, does, tG, tE, tS))
    ELSE cached_wrapper(st, how = "cached_monitor", args, kwargs, does, tG, tE, tS)

\* some argument of the call has no string form
HasBadArg(args, kwargs) ==
    \/ \E i \in 1..Len(args) : StrFails(args[i])
    \/ \E i \in 1..Len(kwargs) : StrFails(kwargs[i].v)

\* a call of the decorated operation, which on running does `does`
Invoke(args, kwargs, does) ==
    \E tG \in Later(now) : \E tE \in Later(tG) : \E tS \in Later(tE) :
        LET st == [now |-> now, self |-> caches["w"], mon |-> monitor,
                   call_count |-> call_count]
            r == decorated(st, comp, args, kwargs, does, tG, tE, tS)
            ran == r.st.call_count - call_count
            hits == r.st.mon.cache_hits - monitor.cache_hits
        IN  \* readings the call does not take are left out of the choice
            /\ (hits = 0) => tG = now
            /\ (ran = 0) => tE = tG
            /\ (ran = 0 \/ r.raised \/ generate_key(args, kwargs) = None) => tS = tE
            /\ now' = r.st.now
            /\ caches' = [caches EXCEPT !["w"] = r.st.self]
            /\ monitor' = r.st.mon
            /\ call_count' = r.st.call_count
            /\ last' = [NoCall EXCEPT !.op = "call", !.c = "w",
                                      !.key = generate_key(args, kwargs),
                                      !.ret = r.ret, !.raised = r.raised,
                                      !.ran = ran, !.hit = (hits > 0), !.at = now,
                                      !.func = IF ran > 0 THEN does ELSE Returns(None),
                                      !.badarg = HasBadArg(args, kwargs),
                                      !.args = args, !.kwargs = kwargs]
            /\ submitted' = submitted \o SubSeq(r.st.mon.metrics,
                                                 Len(monitor.metrics) + 1,
                                                 Len(r.st.mon.metrics))
            /\ UNCHANGED <<scen, horizon, comp, derived, operation_name, threads>>

-----------------------------------------------------------------------------
(* SpecKey: _generate_key on any two calls *)

InitKey ==
    /\ now = 0
    /\ horizon = 0
    /\ NoWrapper
    /\ caches = [c \in {"c1"} |-> SmartCache(DefaultMaxSize, NoTTL)]
    /\ monitor = PerformanceMonitor(DefaultMaxMetrics)
    /\ last = NoCall
    /\ scen = ScenOff

NextKey == \E args \in ArgLists(MaxArgs), kwargs \in KwLists : Derive(args, kwargs)

SpecKey == InitKey /\ [][NextKey]_vars

-----------------------------------------------------------------------------
(* SpecKeySep: _generate_key on calls whose strings hold the separators *)

\* the strings "1|1" and "a=1", which hold the characters "|" and "=" that
\* _generate_key puts between the parts of the key
StrBar == [ty |-> "str", s |-> "1|1"]
StrEq == [ty |-> "str", s |-> "a=1"]

\* the positional and the keyword arguments of the calls
SepArgs == {<<>>, <<Int1>>, <<Str1>>, <<Str1, Str1>>, <<StrBar>>, <<StrEq>>}
SepKwargs == {<<>>, <<Kw("a", Int1)>>, <<Kw("a", Str2)>>}

NextKeySep == \E args \in SepArgs, kwargs \in SepKwargs : Derive(args, kwargs)

SpecKeySep == InitKey /\ [][NextKeySep]_vars

-----------------------------------------------------------------------------
(* SpecWrap: one decorated operation, called with a few argument lists *)

WrapCalls ==
    { [args |-> <<Int1>>, kwargs |-> <<>>],
      [args |-> <<Str1>>, kwargs |-> <<>>],
      [args |-> <<Int1>>, kwargs |-> <<Kw("a", Int1), Kw("b", Str2)>>],
      [args |-> <<Int1>>, kwargs |-> <<Kw("b", Str2), Kw("a", Int1)>>],
      [args |-> <<Bad>>, kwargs |-> <<>>],
      [args |-> <<>>, kwargs |-> <<Kw("a", Bad)>>] }

WrapDoes == {Returns("r1"), Returns(None), Raises("boom")}

InitWrap ==
    /\ now = 0
    /\ horizon = MaxTimeWrap
    /\ comp \in {"cached", "monitor_cached", "cached_monitor"}
    /\ call_count = 0
    /\ derived = <<>>
    /\ operation_name = None
    /\ submitted = <<>>
    /\ threads = <<>>
    /\ \E ttl \in TTLs :
           caches = [c \in {"w"} |-> SmartCache(DefaultMaxSize, ttl)]
    /\ monitor = PerformanceMonitor(DefaultMaxMetrics)
    /\ last = NoCall
    /\ scen = ScenOff

\* calls made so far: each one reads the cache or runs the operation
CallsMade == GetsMade + call_count

NextWrap ==
    \/ Tick
    \/ /\ CallsMade < MaxCalls
       /\ \E call \in WrapCalls, does \in WrapDoes :
              Invoke(call.args, call.kwargs, does)

SpecWrap == InitWrap /\ [][NextWrap]_vars

-----------------------------------------------------------------------------
(* PerformanceMonitor: the aggregates and clear *)

\* a float that is the quotient n / d of two whole numbers, kept exact
Ratio(n, d) == [n |-> n, d |-> d]

\* the float 0.0
Zero == Ratio(0, 1)

\* variant: the rate computed without a look at the total
get_cache_hit_rate_unguarded(m) ==
    Ratio(m.cache_hits * 100, m.cache_hits + m.cache_misses)

\* PerformanceMonitor.get_cache_hit_rate
get_cache_hit_rate(m) ==
    LET total == m.cache_hits + m.cache_misses
    IN  IF total = 0 THEN Zero ELSE Ratio(m.cache_hits * 100, total)

RECURSIVE sum_duration_ms(_)
\* sum(m.duration_ms for m in filtered)
sum_duration_ms(filtered) ==
    IF filtered = <<>> THEN 0
    ELSE filtered[1].duration_ms + sum_duration_ms(Tail(filtered))

\* PerformanceMonitor.get_average_duration(operation)
get_average_duration(m, operation) ==
    IF m.metrics = <<>> THEN Zero
    ELSE LET filtered == IF Truthy(operation)
                         THEN SelectSeq(m.metrics, LAMBDA x : x.operation = operation)
                         ELSE m.metrics
         IN  IF filtered = <<>> THEN Zero
             ELSE Ratio(sum_duration_ms(filtered), Len(filtered))

\* variant: the record goes ahead of the records of its own duration
InsertDesc_ahead(sorted, x) ==
    LET ahead == Cardinality({i \in 1..Len(sorted) :
                                 sorted[i].duration_ms > x.duration_ms})
    IN  SubSeq(sorted, 1, ahead) \o <<x>> \o SubSeq(sorted, ahead + 1, Len(sorted))

\* one more record put into a list sorted by duration_ms descending: it goes
\* behind every record that is not faster
InsertDesc(sorted, x) ==
    LET ahead == Cardinality({i \in 1..Len(sorted) :
                                 sorted[i].duration_ms >= x.duration_ms})
    IN  SubSeq(sorted, 1, ahead) \o <<x>> \o SubSeq(sorted, ahead + 1, Len(sorted))

RECURSIVE sorted_desc(_)
\* sorted(metrics, key=lambda m: m.duration_ms, reverse=True): a new list,
\* records of equal duration in the order they have in metrics
sorted_desc(metrics) ==
    IF metrics = <<>> THEN <<>>
    ELSE InsertDesc(sorted_desc(SubSeq(metrics, 1, Len(metrics) - 1)),
                    metrics[Len(metrics)])

\* the Python slice s[:limit] for limit >= 0
SliceFirst(s, limit) == SubSeq(s, 1, IF limit < Len(s) THEN limit ELSE Len(s))

\* PerformanceMonitor.get_slowest_operations(limit)
get_slowest_operations(m, limit) == SliceFirst(sorted_desc(m.metrics), limit)

\* variant: a clear that forgets to zero the misses
monitor_clear_keeps_misses(m) == [m EXCEPT !.metrics = <<>>, !.cache_hits = 0]

\* PerformanceMonitor.clear
monitor_clear(m) ==
    [m EXCEPT !.metrics = <<>>, !.cache_hits = 0, !.cache_misses = 0]

\* the records a caller hands to record_metric
OpLabels == {"op1", "op2"}
Durations == {10, 20}
Metrics == {PerformanceMetric(o, d, 0, TRUE, None) : o \in OpLabels, d \in Durations}

\* the max_metrics a monitor is constructed with
MonSizes == Sizes \cup {DefaultMaxMetrics}

\* the labels a caller asks get_average_duration about
AskedLabels == {None, "", "op1", "op3"}

monvars == <<now, caches, scen, horizon, comp, call_count, derived,
             operation_name, threads>>

\* pm.record_metric(metric)
RecordMetric(metric) ==
    /\ monitor' = record_metric(monitor, metric)
    /\ submitted' = Append(submitted, metric)
    /\ last' = [NoCall EXCEPT !.op = "record_metric"]
    /\ UNCHANGED monvars

\* pm.record_cache_hit()
RecordCacheHit ==
    /\ monitor' = record_cache_hit(monitor)
    /\ last' = [NoCall EXCEPT !.op = "record_cache_hit"]
    /\ UNCHANGED <<submitted, monvars>>

\* pm.record_cache_miss()
RecordCacheMiss ==
    /\ monitor' = record_cache_miss(monitor)
    /\ last' = [NoCall EXCEPT !.op = "record_cache_miss"]
    /\ UNCHANGED <<submitted, monvars>>

\* pm.get_cache_hit_rate()
GetCacheHitRate ==
    /\ last' = [NoCall EXCEPT !.op = "get_cache_hit_rate",
                              !.num = get_cache_hit_rate(monitor)]
    /\ UNCHANGED <<monitor, submitted, monvars>>

\* pm.get_average_duration(operation)
GetAverageDuration(operation) ==
    /\ last' = [NoCall EXCEPT !.op = "get_average_duration", !.arg = operation,
                              !.num = get_average_duration(monitor, operation)]
    /\ UNCHANGED <<monitor, submitted, monvars>>

\* pm.get_slowest_operations(limit)
GetSlowestOperations(limit) ==
    /\ last' = [NoCall EXCEPT !.op = "get_slowest_operations", !.limit = limit,
                              !.list = get_slowest_operations(monitor, limit)]
    /\ UNCHANGED <<monitor, submitted, monvars>>

\* pm.clear()
MonitorClear ==
    /\ monitor' = monitor_clear(monitor)
    /\ submitted' = <<>>
    /\ last' = [NoCall EXCEPT !.op = "monitor_clear", !.list = monitor.metrics,
                              !.counted = GetsMade]
    /\ UNCHANGED monvars

-----------------------------------------------------------------------------
(* SpecMon: a PerformanceMonitor of any max_metrics, its log and aggregates *)

InitMon ==
    /\ now = 0
    /\ horizon = 0
    /\ NoWrapper
    /\ caches = [c \in {"c1"} |-> SmartCache(DefaultMaxSize, NoTTL)]
    /\ \E n \in MonSizes : monitor = PerformanceMonitor(n)
    /\ last = NoCall
    /\ scen = ScenOff

NextMon ==
    \/ /\ Len(submitted) < MaxRecords
       /\ \E metric \in Metrics : RecordMetric(metric)
    \/ /\ GetsMade < MaxCountsMon
       /\ (RecordCacheHit \/ RecordCacheMiss)
    \/ \E operation \in AskedLabels : GetAverageDuration(operation)
    \/ \E limit \in 0..MaxLimit : GetSlowestOperations(limit)
    \/ MonitorClear

SpecMon == InitMon /\ [][NextMon]_vars

-----------------------------------------------------------------------------
(* SpecRate: a PerformanceMonitor counting cache hits and misses *)

InitRate ==
    /\ now = 0
    /\ horizon = 0
    /\ NoWrapper
    /\ caches = [c \in {"c1"} |-> SmartCache(DefaultMaxSize, NoTTL)]
    /\ \E n \in MonSizes : monitor = PerformanceMonitor(n)
    /\ last = NoCall
    /\ scen = ScenOff

NextRate ==
    \/ /\ GetsMade < MaxCounts
       /\ RecordCacheHit
    \/ /\ GetsMade < MaxCounts
       /\ RecordCacheMiss
    \/ GetCacheHitRate
    \/ MonitorClear

SpecRate == InitRate /\ [][NextRate]_vars

-----------------------------------------------------------------------------
(* SpecConc: two threads, each with a SmartCache of its own, in get at the *)
(* same time.  `self.cache_hits += 1` reads the counter, then writes it.   *)

Threads == {"t1", "t2"}

\* the cache a thread owns
CacheOf(t) == IF t = "t1" THEN "c1" ELSE "c2"

Idle == [pc |-> "idle", hit |-> FALSE, reg |-> 0]

concvars == <<now, scen, horizon, comp, call_count, derived, operation_name,
              submitted>>

\* SmartCache.get up to the call of the monitor: the lookup, the expiry
\* check, entry.access() and the cache's own counter
ConcGetLocal(t, key) ==
    LET c == CacheOf(t)
        r == cache_get(caches[c], monitor, key, now, now)
    IN  /\ threads[t].pc = "idle"
        /\ caches' = [caches EXCEPT ![c] = r.self]
        /\ threads' = [threads EXCEPT ![t] = [pc |-> "read", reg |-> 0,
                                              hit |-> r.present /\ ~r.expired]]
        /\ last' = [NoCall EXCEPT !.op = "get_local", !.c = c, !.key = key]
        /\ UNCHANGED <<monitor, concvars>>

\* record_cache_hit / record_cache_miss: the read of `self.cache_hits += 1`
ConcRead(t) ==
    /\ threads[t].pc = "read"
    /\ threads' = [threads EXCEPT
           ![t].pc = "write",
           ![t].reg = IF threads[t].hit THEN monitor.cache_hits
                                        ELSE monitor.cache_misses]
    /\ last' = [NoCall EXCEPT !.op = "counter_read", !.c = CacheOf(t)]
    /\ UNCHANGED <<caches, monitor, concvars>>

\* record_cache_hit / record_cache_miss: the write of `self.cache_hits += 1`,
\* after which get returns
ConcWrite(t) ==
    /\ threads[t].pc = "write"
    /\ monitor' = IF threads[t].hit
                  THEN [monitor EXCEPT !.cache_hits = threads[t].reg + 1]
                  ELSE [monitor EXCEPT !.cache_misses = threads[t].reg + 1]
    /\ threads' = [threads EXCEPT ![t] = Idle]
    /\ last' = [NoCall EXCEPT !.op = "counter_write", !.c = CacheOf(t)]
    /\ UNCHANGED <<caches, concvars>>

\* a thread between calls sets a key of its cache
ConcSet(t, key) ==
    /\ threads[t].pc = "idle"
    /\ Set(CacheOf(t), key, "v1", NoTTL)

\* the gets made on cache c, as the cache itself counts them
GetsOn(c) == caches[c].hits + caches[c].misses

InitConc ==
    /\ now = 0
    /\ horizon = 0
    /\ comp = "none"
    /\ call_count = 0
    /\ derived = <<>>
    /\ operation_name = None
    /\ submitted = <<>>
    /\ threads = [t \in Threads |-> Idle]
    /\ caches = [c \in {"c1", "c2"} |-> SmartCache(1, NoTTL)]
    /\ monitor = PerformanceMonitor(DefaultMaxMetrics)
    /\ last = NoCall
    /\ scen = ScenOff

NextConc ==
    \/ \E t \in Threads, k \in MultiKeys :
           /\ GetsOn(CacheOf(t)) < MaxGetsConc
           /\ ConcGetLocal(t, k)
    \/ \E t \in Threads : ConcRead(t)
    \/ \E t \in Threads : ConcWrite(t)
    \/ \E t \in Threads, k \in MultiKeys : ConcSet(t, k)

SpecConc == InitConc /\ [][NextConc]_vars

-----------------------------------------------------------------------------
(* SpecSink: SmartCache.get and the wrapper of monitor_performance with the *)
(* calls of the logger in them; during a call the logger either works or    *)
(* raises whenever it is called                                             *)

\* str(e) of what a logger call raises
LogError == "logging failed"

\* SmartCache.get(key) with its logger calls: logger.debug of the expired
\* branch comes before the entry is removed, the one of record_cache_hit /
\* record_cache_miss after the counters were written
cache_get_logged(self, m, key, t0, t1, fails) ==
    LET r == cache_get(self, m, key, t0, t1) IN
    IF ~fails
    THEN [self |-> r.self, mon |-> r.mon, ret |-> r.ret, raised |-> FALSE,
          present |-> r.present, expired |-> r.expired]
    ELSE IF r.present /\ r.expired
    THEN [self |-> self, mon |-> m, ret |-> LogError, raised |-> TRUE,
          present |-> TRUE, expired |-> TRUE]
    ELSE [self |-> r.self, mon |-> r.mon, ret |-> LogError, raised |-> TRUE,
          present |-> r.present, expired |-> FALSE]

\* monitor_performance: wrapper with its logger calls.  record_metric logs
\* after it has appended; when that raises in the try block the except
\* branch takes it for a failure of the operation and records a second metric
monitored_logged(t0, r, fails) ==
    IF ~fails
    THEN monitored(t0, r)
    ELSE IF r.raised
    THEN [monitored(t0, r) EXCEPT !.ret = LogError]
    ELSE LET duration_ms == (r.st.now - t0) * 1000
             failed == PerformanceMetric(op_name, duration_ms, r.st.now, FALSE, LogError)
         IN  Outcome([r.st EXCEPT !.mon = record_metric(monitored(t0, r).st.mon, failed)],
                     LogError, TRUE)

\* a call of SmartCache.get(key) on instance c
GetLogged(c, key, fails) ==
    \E t \in Later(now) :
        LET r == cache_get_logged(caches[c], monitor, key, now, t, fails)
            hit == r.present /\ ~r.expired
        IN  /\ hit \/ t = now
            /\ caches' = [caches EXCEPT ![c] = r.self]
            /\ monitor' = r.mon
            /\ now' = t
            /\ last' = [Called("get", c, key, r.ret, r.present, FALSE, r.expired, now)
                           EXCEPT !.raised = r.raised]
            /\ UNCHANGED <<scen, wrapvars>>

\* a call of the operation under monitor_performance
InvokeLogged(does, fails) ==
    \E tE \in Later(now) :
        LET st == [now |-> now, self |-> caches["c1"], mon |-> monitor,
                   call_count |-> call_count]
            r == monitored_logged(now, func(st, does, tE), fails)
        IN  /\ now' = r.st.now
            /\ monitor' = r.st.mon
            /\ call_count' = r.st.call_count
            /\ submitted' = submitted \o SubSeq(r.st.mon.metrics,
                                                 Len(monitor.metrics) + 1,
                                                 Len(r.st.mon.metrics))
            /\ last' = [NoCall EXCEPT !.op = "call", !.ret = r.ret,
                                      !.raised = r.raised, !.ran = 1, !.at = now,
                                      !.func = does]
            /\ UNCHANGED <<caches, scen, horizon, comp, derived, operation_name,
                           threads>>

InitSink ==
    /\ now = 0
    /\ horizon = MaxTimeSink
    /\ comp = "monitor"
    /\ call_count = 0
    /\ derived = <<>>
    /\ operation_name = None
    /\ submitted = <<>>
    /\ threads = <<>>
    /\ \E d \in TTLs : caches = [c \in {"c1"} |-> SmartCache(1, d)]
    /\ monitor = PerformanceMonitor(DefaultMaxMetrics)
    /\ last = NoCall
    /\ scen = ScenOff

NextSink ==
    \/ Tick
    \/ \E k \in MultiKeys, ttl \in TTLs : Set("c1", k, "v1", ttl)
    \/ /\ GetsMade < MaxGetsSink
       /\ \E k \in MultiKeys, fails \in BOOLEAN : GetLogged("c1", k, fails)
    \/ /\ call_count < MaxCallsSink
       /\ \E does \in WrapDoes, fails \in BOOLEAN : InvokeLogged(does, fails)

SpecSink == InitSink /\ [][NextSink]_vars

-----------------------------------------------------------------------------
(* SpecMonWrap: one operation under monitor_performance alone, decorated *)
(* with no name, an empty name or a name                                  *)

OpNames == {None, "", "lap_times"}

InitMonWrap ==
    /\ now = 0
    /\ horizon = MaxTimeMon
    /\ comp = "monitor"
    /\ call_count = 0
    /\ derived = <<>>
    /\ operation_name \in OpNames
    /\ submitted = <<>>
    /\ threads = <<>>
    /\ caches = [c \in {"w"} |-> SmartCache(DefaultMaxSize, NoTTL)]
    /\ monitor = PerformanceMonitor(DefaultMaxMetrics)
    /\ last = NoCall
    /\ scen = ScenOff

NextMonWrap ==
    \/ Tick
    \/ /\ call_count < MaxCallsMon
       /\ \E call \in WrapCalls, does \in WrapDoes :
              Invoke(call.args, call.kwargs, does)

SpecMonWrap == InitMonWrap /\ [][NextMonWrap]_vars

-----------------------------------------------------------------------------
(* Properties of SmartCache and CacheEntry *)

\* the dict of cache c before and after a step
Pre(c) == caches[c].cache
Post(c) == caches'[c].cache

\* the step is the call op(key) on cache c
IsCall(op, c) == last'.op = op /\ last'.c = c

\* the entry's TTL is set and its age at reading t exceeds it
AgeExceedsTTL(entry, t) ==
    /\ ~entry.ttl_seconds.isNone
    /\ t - entry.created_at > entry.ttl_seconds.secs

\* C1: a cache constructed with max_size >= 1 never holds more than
\* max_size entries, whatever set, get and clear calls were made.
C1_SizeAtMostMax ==
    \A c \in DOMAIN caches :
        caches[c].max_size >= 1 => Len(caches[c].cache) <= caches[c].max_size

\* a set of a new key has just found the dict full, and the dict is full again
C1_Witness ==
    /\ last.op = "set" /\ last.full /\ ~last.present
    /\ caches[last.c].max_size = 2
    /\ Len(caches[last.c].cache) = 2

\* C2: set of a key not in the map, the map holding exactly max_size >= 1
\* entries, removes exactly one stored entry, one whose last-access
\* timestamp is minimal, and keeps every other entry as it was.
C2_EvictsOneLeastRecent ==
    [][\A c \in DOMAIN caches :
        (/\ IsCall("set", c)
         /\ ~Has(Pre(c), last'.key)
         /\ caches[c].max_size >= 1
         /\ Len(Pre(c)) = caches[c].max_size)
        => \E i \in 1..Len(Pre(c)) :
              /\ \A j \in 1..Len(Pre(c)) :
                     Pre(c)[i].entry.last_accessed <= Pre(c)[j].entry.last_accessed
              /\ ~Has(Post(c), Pre(c)[i].key)
              /\ \A j \in 1..Len(Pre(c)) :
                     j # i => /\ Has(Post(c), Pre(c)[j].key)
                              /\ Lookup(Post(c), Pre(c)[j].key) = Pre(c)[j].entry
              /\ Has(Post(c), last'.key)
              /\ Len(Post(c)) = Len(Pre(c))
      ]_vars

\* a new key was set into a full dict of two, where the entry put first was
\* the more recently used one: the entry put second made room
C2_Witness ==
    /\ last.op = "set" /\ last.full /\ ~last.present
    /\ caches[last.c].max_size = 2
    /\ Len(caches[last.c].cache) = 2
    /\ caches[last.c].cache[1].entry.access_count = 1
    /\ caches[last.c].cache[1].entry.created_at = 0
    /\ caches[last.c].cache[2].key = last.key

\* C3: a successful read protects an entry from the next eviction.  After
\* set(k1), set(k2), set(k3), get(k1), set(k4) at successively later clock
\* readings on a cache of max_size 3 without expiry, k2 is gone and k1, k3, k4
\* are stored; and no set removes an entry that was hit later than some other
\* stored entry was last set or hit.
C3_ReadProtectsFromEviction ==
    [][/\ (scen'.n = Len(Scenario) /\ caches["c1"].max_size = 3)
            => KeysOf(Post("c1")) = {"k1", "k3", "k4"}
       /\ \A c \in DOMAIN caches :
            IsCall("set", c) =>
              \A i \in 1..Len(Pre(c)) :
                (/\ Pre(c)[i].entry.access_count > 0
                 /\ \E j \in 1..Len(Pre(c)) :
                        Pre(c)[j].entry.last_accessed < Pre(c)[i].entry.last_accessed)
                => Has(Post(c), Pre(c)[i].key)
      ]_vars

\* the five calls of the scenario have been made
C3_Witness ==
    /\ scen.n = Len(Scenario)
    /\ last.op = "set" /\ last.key = "k4" /\ last.full
    /\ ~Has(caches["c1"].cache, "k2")

\* C4: get never returns the value of an expired entry: finding an entry
\* whose TTL is set and whose age exceeds it, get returns None, removes the
\* entry and counts a miss, and counts no hit.
C4_ExpiredIsAMiss ==
    [][\A c \in DOMAIN caches :
        (/\ IsCall("get", c)
         /\ Has(Pre(c), last'.key)
         /\ AgeExceedsTTL(Lookup(Pre(c), last'.key), now))
        => /\ last'.ret = None
           /\ ~Has(Post(c), last'.key)
           /\ Len(Post(c)) = Len(Pre(c)) - 1
           /\ caches'[c].misses = caches[c].misses + 1
           /\ caches'[c].hits = caches[c].hits
           /\ monitor'.cache_misses = monitor.cache_misses + 1
           /\ monitor'.cache_hits = monitor.cache_hits
      ]_vars

\* get has just found an entry stored with ttl_seconds = 0 one second before
C4_Witness ==
    /\ last.op = "get" /\ last.present /\ last.expired
    /\ last.ret = None
    /\ last.at = 1
    /\ ~Has(caches[last.c].cache, last.key)
    /\ caches[last.c].misses = 1

\* C5: every get on any cache adds one to exactly one of that cache's hits
\* and misses and one to the monitor's counter of the same name; it is a hit
\* exactly when the key is present and unexpired; set, clear and get_stats
\* leave the monitor's counters alone.
C5_OneHitOrMissPerGet ==
    [][\A c \in DOMAIN caches :
        /\ IsCall("get", c) =>
             LET hit == /\ Has(Pre(c), last'.key)
                        /\ ~AgeExceedsTTL(Lookup(Pre(c), last'.key), now)
                 h == IF hit THEN 1 ELSE 0
             IN  /\ caches'[c].hits = caches[c].hits + h
                 /\ caches'[c].misses = caches[c].misses + (1 - h)
                 /\ monitor'.cache_hits = monitor.cache_hits + h
                 /\ monitor'.cache_misses = monitor.cache_misses + (1 - h)
                 /\ \A o \in DOMAIN caches \ {c} : caches'[o] = caches[o]
        /\ (IsCall("set", c) \/ IsCall("clear", c) \/ IsCall("get_stats", c)) =>
             /\ monitor'.cache_hits = monitor.cache_hits
             /\ monitor'.cache_misses = monitor.cache_misses
      ]_vars

\* a hit on one cache and a miss on the other have both reached the monitor
C5_Witness ==
    /\ last.op = "get"
    /\ caches["c1"].hits = 1 /\ caches["c1"].misses = 0
    /\ caches["c2"].hits = 0 /\ caches["c2"].misses = 1
    /\ monitor.cache_hits = 1 /\ monitor.cache_misses = 1

\* C6: is_expired is true exactly when the TTL is set and the time since
\* creation is strictly greater than it: never with TTL None, and not when
\* the age equals the TTL.
C6_ExpiredIffAgeExceedsTTL ==
    [][\A c \in DOMAIN caches :
        (IsCall("get", c) /\ last'.present) =>
          LET entry == Lookup(Pre(c), last'.key)
              age == now - entry.created_at
          IN  /\ last'.expired <=>
                    (~entry.ttl_seconds.isNone /\ age > entry.ttl_seconds.secs)
              /\ entry.ttl_seconds.isNone => ~last'.expired
              /\ (~entry.ttl_seconds.isNone /\ age = entry.ttl_seconds.secs)
                    => ~last'.expired
      ]_vars

\* get has just found, unexpired, an entry whose age equals its TTL
C6_Witness ==
    /\ last.op = "get" /\ last.present /\ ~last.expired
    /\ Has(caches[last.c].cache, last.key)
    /\ LET entry == Lookup(caches[last.c].cache, last.key)
       IN  /\ ~entry.ttl_seconds.isNone
           /\ last.at - entry.created_at = entry.ttl_seconds.secs

-----------------------------------------------------------------------------
(* Properties of the cached decorator and of key derivation *)

\* the step is a call of the decorated operation whose key can be derived
IsKeyedCall == last'.op = "call" /\ ~last'.badarg

\* the wrapper's cache holds, for the key of the call being made, an entry
\* that has not expired at the reading the call starts at
HoldsLive(key) ==
    /\ Has(Pre("w"), key)
    /\ ~AgeExceedsTTL(Lookup(Pre("w"), key), now)

\* the call being made has the arguments of the call before it, the
\* keyword arguments in any order
SameArguments ==
    /\ last.op = "call"
    /\ last'.args = last.args
    /\ {last'.kwargs[i] : i \in 1..Len(last'.kwargs)}
         = {last.kwargs[i] : i \in 1..Len(last.kwargs)}

\* C7: of two calls with equal arguments, the entry stored by the first
\* neither expired nor evicted in between, only the first runs the operation,
\* and the second returns the result of the first.
C7_EqualCallRunsOnce ==
    [][(IsKeyedCall /\ SameArguments /\ ~last.raised /\ HoldsLive(last'.key))
        => /\ call_count' = call_count
           /\ ~last'.raised
           /\ last'.ret = last.ret
      ]_vars

\* C8: under cached and monitor_performance together, in either order, a
\* call whose key can be derived gives the monitor exactly one hit or miss,
\* and a call that gives it a hit does not run the operation.
C8_HitRunsNothing ==
    [][(IsKeyedCall /\ comp \in {"monitor_cached", "cached_monitor"})
        => LET hits == monitor'.cache_hits - monitor.cache_hits
               misses == monitor'.cache_misses - monitor.cache_misses
           IN  /\ hits + misses = 1
               /\ hits >= 0 /\ misses >= 0
               /\ hits = 1 => call_count' = call_count
      ]_vars

\* the two calls whose keys were derived last have positional arguments of
\* equal string forms and the same keyword name/value-string pairs
SameStrings(x, y) ==
    /\ ~HasBadArg(x.args, x.kwargs) /\ ~HasBadArg(y.args, y.kwargs)
    /\ Len(x.args) = Len(y.args)
    /\ \A i \in 1..Len(x.args) : str(x.args[i]) = str(y.args[i])
    /\ {<<x.kwargs[i].k, str(x.kwargs[i].v)>> : i \in 1..Len(x.kwargs)}
         = {<<y.kwargs[i].k, str(y.kwargs[i].v)>> : i \in 1..Len(y.kwargs)}

\* C9: _generate_key gives the same key whatever the order the keyword
\* arguments are passed in, and for arguments of equal string forms.
C9_KeyIgnoresKeywordOrder ==
    \A i, j \in 1..Len(derived) :
        SameStrings(derived[i], derived[j]) => derived[i].key = derived[j].key

\* the same two keyword arguments were passed in one order, then the other
C9_Witness ==
    /\ last.op = "generate_key"
    /\ Len(derived) = 2
    /\ Len(derived[1].kwargs) = 2
    /\ derived[2].kwargs = <<derived[1].kwargs[2], derived[1].kwargs[1]>>
    /\ derived[1].args = derived[2].args
    /\ derived[2].key # None

\* C10: a call whose key cannot be derived runs the operation exactly once
\* and hands its result or its failure to the caller; the wrapper's cache
\* and the hit and miss counters of cache and monitor stay as they were.
C10_UnkeyedCallBypassesCache ==
    [][(last'.op = "call" /\ last'.badarg)
        => /\ call_count' = call_count + 1
           /\ last'.raised = last'.func.raised
           /\ ~last'.raised => last'.ret = last'.func.value
           /\ caches' = caches
           /\ monitor'.cache_hits = monitor.cache_hits
           /\ monitor'.cache_misses = monitor.cache_misses
      ]_vars

\* a call with an argument that has no string form has just raised what the
\* operation raised, the cache holding an entry of an earlier call
C10_Witness ==
    /\ last.op = "call" /\ last.badarg
    /\ last.ran = 1 /\ last.raised
    /\ Len(caches["w"].cache) = 1
    /\ monitor.cache_misses = 1

\* C11: when the operation fails inside the cached wrapper, the caller gets
\* that failure, the call stores no entry, and afterwards the wrapper's cache
\* holds no entry for the key of the call, whatever calls were made before.
C11_FailureLeavesNoEntry ==
    [][(last'.op = "call" /\ last'.ran > 0 /\ last'.func.raised)
        => /\ last'.raised
           /\ last'.ret = last'.func.value
           /\ \A i \in 1..Len(Post("w")) :
                  /\ Has(Pre("w"), Post("w")[i].key)
                  /\ Lookup(Pre("w"), Post("w")[i].key) = Post("w")[i].entry
           /\ ~last'.badarg => ~Has(Post("w"), last'.key)
      ]_vars

-----------------------------------------------------------------------------
(* Properties of monitor_performance *)

\* the step is a call of the wrapper of monitor_performance itself
IsMonitoredCall == last'.op = "call" /\ comp \in {"monitor", "monitor_cached"}

\* the step gives the monitor's log exactly one more record, which is m
AppendsOne(m) == monitor'.metrics = Append(monitor.metrics, m)

NewMetric == monitor'.metrics[Len(monitor'.metrics)]

C13_FailureMetricAndReraise ==
    [][(IsMonitoredCall /\ last'.ran = 1 /\ last'.func.raised)
        => /\ Len(monitor'.metrics) = Len(monitor.metrics) + 1
           /\ AppendsOne(NewMetric)
           /\ ~NewMetric.success
           /\ NewMetric.error_msg = last'.func.value
           /\ last'.raised
           /\ last'.ret = last'.func.value
      ]_vars

\* after a call that returned, a call has raised "boom": the log holds the
\* record of a success, then the record of the failure
C13_Witness ==
    /\ last.op = "call" /\ comp = "monitor" /\ last.raised
    /\ last.ret = "boom"
    /\ Len(monitor.metrics) = 2
    /\ monitor.metrics[1].success
    /\ ~monitor.metrics[2].success
    /\ monitor.metrics[2].error_msg = "boom"

-----------------------------------------------------------------------------
(* Properties of PerformanceMonitor *)

\* C14: with max_metrics >= 1, after any record_metric calls the log is no
\* longer than max_metrics and is exactly the most recent
\* min(n, max_metrics) of the n records submitted, in the order submitted.
C14_LogIsMostRecent ==
    monitor.max_metrics >= 1 =>
        LET n == Len(submitted)
            k == IF n < monitor.max_metrics THEN n ELSE monitor.max_metrics
        IN  /\ Len(monitor.metrics) <= monitor.max_metrics
            /\ monitor.metrics = SubSeq(submitted, n - k + 1, n)

\* a third record has gone into a log of max_metrics = 2: the first one
\* submitted, different from the two after it, has been dropped
C14_Witness ==
    /\ last.op = "record_metric"
    /\ monitor.max_metrics = 2
    /\ Len(submitted) = 3
    /\ submitted[1] # submitted[2] /\ submitted[1] # submitted[3]
    /\ monitor.metrics = <<submitted[2], submitted[3]>>

\* C15: the monitor tolerates concurrent increments from independent
\* caches: gets on different caches interleaved at the reads and writes of
\* the counter lose no increment, so that once every get has returned
\* cache_hits + cache_misses is the number of gets made.
C15_NoIncrementLost ==
    (\A t \in DOMAIN threads : threads[t].pc = "idle")
        => monitor.cache_hits + monitor.cache_misses = GetsOn("c1") + GetsOn("c2")

\* C16: a logger call that raises inside SmartCache.get or inside the
\* wrapper of monitor_performance changes nothing: the cache, the monitor and
\* what the caller gets are what they are when the logger works, with one
\* hit or miss for the get and one metric for the instrumented call.
C16_LoggingFailureIsHarmless ==
    [][/\ IsCall("get", "c1") =>
            \E t \in Later(now) :
                LET r == cache_get(caches["c1"], monitor, last'.key, now, t)
                IN  /\ caches'["c1"] = r.self
                    /\ monitor' = r.mon
                    /\ ~last'.raised
                    /\ last'.ret = r.ret
       /\ last'.op = "call" =>
            /\ Len(monitor'.metrics) = Len(monitor.metrics) + 1
            /\ last'.raised = last'.func.raised
            /\ last'.ret = last'.func.value
      ]_vars

\* C17: get_cache_hit_rate returns 0.0 when cache_hits and cache_misses are
\* both zero and hits / (hits + misses) * 100 otherwise, a value from 0 to
\* 100 (about 66.7 for 2 hits and 1 miss), and never divides by zero.
C17_HitRateBetween0And100 ==
    last.op = "get_cache_hit_rate" =>
        LET hits == monitor.cache_hits
            misses == monitor.cache_misses
            rate == last.num
        IN  /\ rate.d > 0
            /\ (hits = 0 /\ misses = 0) => rate.n = 0
            /\ (hits + misses > 0) => rate.n * (hits + misses) = hits * 100 * rate.d
            /\ 0 <= rate.n /\ rate.n <= 100 * rate.d
            /\ (hits = 2 /\ misses = 1)
                  => 666 * rate.d <= 10 * rate.n /\ 10 * rate.n <= 667 * rate.d

\* the rate was asked after two hits and one miss: 200 / 3
C17_Witness ==
    /\ last.op = "get_cache_hit_rate"
    /\ monitor.cache_hits = 2 /\ monitor.cache_misses = 1
    /\ last.num = Ratio(200, 3)

\* C18: get_average_duration returns the mean of duration_ms over all
\* retained records when no label is given and, for every label that is
\* given, any string, the mean over exactly the retained records with that
\* operation; it returns 0.0 when the records selected are none.
C18_AverageOverSelectedRecords ==
    last.op = "get_average_duration" =>
        LET selected == IF last.arg = None
                        THEN monitor.metrics
                        ELSE SelectSeq(monitor.metrics,
                                       LAMBDA x : x.operation = last.arg)
            mean == last.num
        IN  /\ mean.d > 0
            /\ selected = <<>> => mean.n = 0
            /\ selected # <<>>
                  => mean.n * Len(selected) = sum_duration_ms(selected) * mean.d

\* the place of record i of the log among the records by duration_ms
\* descending, records of equal duration in the order of the log
Rank(log, i) ==
    1 + Cardinality({j \in 1..Len(log) :
                        \/ log[j].duration_ms > log[i].duration_ms
                        \/ log[j].duration_ms = log[i].duration_ms /\ j < i})

\* C19: for every limit >= 0 and every log, get_slowest_operations(limit)
\* returns exactly min(limit, log length) records, those of largest
\* duration_ms, by duration_ms descending, records of equal duration in
\* their order in the log; the log keeps its order.
C19_SlowestFirstStable ==
    [][last'.op = "get_slowest_operations" =>
         LET log == monitor.metrics
             result == last'.list
             limit == last'.limit
         IN  /\ Len(result) = IF limit < Len(log) THEN limit ELSE Len(log)
             /\ \A k \in 1..Len(result) :
                    \E i \in 1..Len(log) : Rank(log, i) = k /\ result[k] = log[i]
             /\ \A k \in 1..(Len(result) - 1) :
                    result[k].duration_ms >= result[k + 1].duration_ms
             /\ monitor'.metrics = log
      ]_vars

\* the two slowest were asked of a log of three, the fastest record first in
\* the log and two records of equal duration after it: these two come back,
\* in their order in the log
C19_Witness ==
    /\ last.op = "get_slowest_operations"
    /\ last.limit = 2
    /\ Len(monitor.metrics) = 3
    /\ monitor.metrics[1].duration_ms = 10
    /\ monitor.metrics[2].duration_ms = 20
    /\ monitor.metrics[3].duration_ms = 20
    /\ monitor.metrics[2] # monitor.metrics[3]
    /\ last.list = <<monitor.metrics[2], monitor.metrics[3]>>

\* C20: PerformanceMonitor.clear, in any reachable state, leaves the log
\* empty and cache_hits = cache_misses = 0, keeps max_metrics, and leaves the
\* monitor as a newly constructed one of that max_metrics, so that
\* record_metric and the counters go on as on a new monitor.
C20_ClearResetsMonitor ==
    [][last'.op = "monitor_clear" =>
         /\ monitor'.metrics = <<>>
         /\ monitor'.cache_hits = 0 /\ monitor'.cache_misses = 0
         /\ monitor'.max_metrics = monitor.max_metrics
         /\ monitor' = PerformanceMonitor(monitor.max_metrics)
      ]_vars

\* a monitor that held two records and had counted a hit or a miss has just
\* been cleared
C20_Witness ==
    /\ last.op = "monitor_clear"
    /\ Len(last.list) = 2
    /\ last.counted = 1
    /\ monitor = PerformanceMonitor(2)

-----------------------------------------------------------------------------
(* Further properties of SmartCache *)

\* C21: SmartCache.clear empties the map of that cache and zeroes its hits
\* and misses; the monitor's cache_hits, cache_misses and log, and the map
\* and counters of every other cache, stay as they were.
C21_ClearTouchesOwnCacheOnly ==
    [][\A c \in DOMAIN caches :
        IsCall("clear", c) =>
            /\ Post(c) = <<>>
            /\ caches'[c].hits = 0 /\ caches'[c].misses = 0
            /\ caches'[c].max_size = caches[c].max_size
            /\ caches'[c].default_ttl = caches[c].default_ttl
            /\ monitor' = monitor
            /\ \A o \in DOMAIN caches \ {c} : caches'[o] = caches[o]
      ]_vars

\* c1 has just been cleared of the miss it had counted; c2 keeps its entry
\* and its hit, the monitor its hit and its miss
C21_Witness ==
    /\ last.op = "clear" /\ last.c = "c1"
    /\ caches["c1"].cache = <<>>
    /\ caches["c1"].hits = 0 /\ caches["c1"].misses = 0
    /\ Len(caches["c2"].cache) = 1
    /\ caches["c2"].hits = 1 /\ caches["c2"].misses = 0
    /\ monitor.cache_hits = 1 /\ monitor.cache_misses = 1

\* C22: after set(key, value, ttl) the entry under key is a fresh one: it
\* holds value, its creation and last-access timestamps are readings of the
\* clock taken during the set, its access count is 0, and its TTL is the ttl
\* given, 0 included, or the cache's default when none is given; so it is
\* whether key was absent or present before.
C22_SetStoresFreshEntry ==
    [][\A c \in DOMAIN caches :
        IsCall("set", c) =>
            /\ Has(Post(c), last'.key)
            /\ LET entry == Lookup(Post(c), last'.key)
               IN  /\ entry.value = last'.value
                   /\ entry.access_count = 0
                   /\ now <= entry.created_at
                   /\ entry.created_at <= entry.last_accessed
                   /\ entry.last_accessed <= now'
                   /\ entry.ttl_seconds = IF ~last'.ttl.isNone
                                          THEN last'.ttl
                                          ELSE caches[c].default_ttl
      ]_vars

\* a key that was stored and hit before has just been set again, at reading
\* 1 and with ttl 0, in a cache without default TTL
C22_Witness ==
    /\ last.op = "set" /\ last.present /\ last.at = 1
    /\ last.ttl = Secs(0) /\ last.value = "v2"
    /\ caches[last.c].default_ttl = NoTTL
    /\ caches[last.c].max_size = 1
    /\ caches[last.c].hits = 1
    /\ Lookup(caches[last.c].cache, last.key).created_at = 1
    /\ Lookup(caches[last.c].cache, last.key).access_count = 0

\* C23: a get that hits returns the stored value, adds exactly one to the
\* access count of that entry and sets its last-access timestamp to the
\* current time; the keys of the cache, the stored values, and the creation
\* time, TTL, access count and last-access timestamp of every other entry
\* stay as they were.
C23_HitTouchesOneEntry ==
    [][\A c \in DOMAIN caches :
        (IsCall("get", c) /\ last'.hit) =>
            LET old == Lookup(Pre(c), last'.key)
                new == Lookup(Post(c), last'.key)
            IN  /\ last'.ret = old.value
                /\ new.value = old.value
                /\ new.created_at = old.created_at
                /\ new.ttl_seconds = old.ttl_seconds
                /\ new.access_count = old.access_count + 1
                /\ now <= new.last_accessed /\ new.last_accessed <= now'
                /\ Len(Post(c)) = Len(Pre(c))
                /\ \A i \in 1..Len(Pre(c)) :
                       /\ Post(c)[i].key = Pre(c)[i].key
                       /\ Pre(c)[i].key # last'.key => Post(c)[i] = Pre(c)[i]
      ]_vars

\* of two stored entries the one put first has just been hit, at reading 1;
\* the other one is as it was stored at reading 0
C23_Witness ==
    /\ last.op = "get" /\ last.hit /\ last.at = 1
    /\ Len(caches[last.c].cache) = 2
    /\ caches[last.c].cache[1].key = last.key
    /\ caches[last.c].cache[1].entry.access_count = 1
    /\ caches[last.c].cache[1].entry.last_accessed = 1
    /\ caches[last.c].cache[1].entry.created_at = 0
    /\ caches[last.c].cache[2].entry.access_count = 0
    /\ caches[last.c].cache[2].entry.last_accessed = 0

\* C25: overwriting a key that is present never removes another entry:
\* after set(key, value) the keys of the map are those before the call, also
\* when the map holds exactly max_size entries.
C25_OverwriteKeepsKeys ==
    [][\A c \in DOMAIN caches :
        (IsCall("set", c) /\ Has(Pre(c), last'.key))
            => KeysOf(Post(c)) = KeysOf(Pre(c))
      ]_vars

\* the step is a set of a new key on cache c that finds the dict at capacity
\* while the dict holds an entry expired at the time of the call
SetFullWithExpired(c) ==
    /\ IsCall("set", c)
    /\ ~Has(Pre(c), last'.key)
    /\ Len(Pre(c)) >= caches[c].max_size
    /\ \E i \in 1..Len(Pre(c)) : is_expired(Pre(c)[i].entry, now)

\* C26 as stated: when set of a new key finds the map at capacity and the map
\* holds an expired entry, the entry removed to make room is an expired one.
C26_EvictionPrefersExpired ==
    [][\A c \in DOMAIN caches :
        SetFullWithExpired(c) =>
            \A i \in 1..Len(Pre(c)) :
                ~Has(Post(c), Pre(c)[i].key) => is_expired(Pre(c)[i].entry, now)
      ]_vars

\* C26: when set of a new key finds the map at capacity and the map holds an
\* expired entry, expiry plays no part in the choice: exactly one entry is
\* removed and it is one of minimal last-access timestamp, expired or not;
\* the expired entries that were accessed later all stay stored.
C26_EvictionIgnoresExpiry ==
    [][\A c \in DOMAIN caches :
        SetFullWithExpired(c) =>
            /\ Len(Post(c)) = Len(Pre(c))
            /\ \A i \in 1..Len(Pre(c)) :
                  /\ ~Has(Post(c), Pre(c)[i].key) =>
                        \A j \in 1..Len(Pre(c)) :
                            Pre(c)[i].entry.last_accessed
                                <= Pre(c)[j].entry.last_accessed
                  /\ (/\ is_expired(Pre(c)[i].entry, now)
                      /\ \E j \in 1..Len(Pre(c)) :
                            Pre(c)[j].entry.last_accessed
                                < Pre(c)[i].entry.last_accessed)
                        => /\ Has(Post(c), Pre(c)[i].key)
                           /\ Lookup(Post(c), Pre(c)[i].key) = Pre(c)[i].entry
      ]_vars

\* a set of a new key into a full dict of two removed an entry that was not
\* expired, and the entry it left in place is expired
C26_Witness ==
    /\ last.op = "set" /\ last.full /\ ~last.present /\ ~last.expired
    /\ caches[last.c].max_size = 2
    /\ Len(caches[last.c].cache) = 2
    /\ caches[last.c].cache[1].key # last.key
    /\ is_expired(caches[last.c].cache[1].entry, last.at)

\* C27: the TTL is measured from the set, not from the last read.  No step
\* other than a set of the key changes a stored entry's creation time or TTL
\* (a hit in particular), and a get on a key whose entry was stored with a
\* TTL, made when more than that TTL has passed since its creation, returns
\* not-found and is no hit, however many hits the entry has had.
C27_TTLRunsFromSet ==
    [][\A c \in DOMAIN caches :
        /\ \A i \in 1..Len(Pre(c)) :
              (/\ Has(Post(c), Pre(c)[i].key)
               /\ ~(IsCall("set", c) /\ last'.key = Pre(c)[i].key))
              => LET after == Lookup(Post(c), Pre(c)[i].key) IN
                 /\ after.created_at = Pre(c)[i].entry.created_at
                 /\ after.ttl_seconds = Pre(c)[i].entry.ttl_seconds
        /\ (/\ IsCall("get", c)
            /\ Has(Pre(c), last'.key)
            /\ AgeExceedsTTL(Lookup(Pre(c), last'.key), now))
           => /\ last'.ret = None
              /\ ~last'.hit
              /\ caches'[c].hits = caches[c].hits
              /\ ~Has(Post(c), last'.key)
      ]_vars

\* a get found its entry expired although the entry had been hit before
C27_Witness ==
    /\ last.op = "get" /\ last.present /\ last.expired
    /\ last.accesses >= 1
    /\ last.ret = None
    /\ caches[last.c].hits = 1 /\ caches[last.c].misses = 1

-----------------------------------------------------------------------------
(* Further properties of PerformanceMonitor *)

\* C28: a monitor constructed with max_metrics = 0 retains nothing: its log
\* is empty after every record_metric call, however many records went in.
C28_ZeroKeepsNothing ==
    monitor.max_metrics = 0 => monitor.metrics = <<>>

-----------------------------------------------------------------------------
(* Further properties of SmartCache._generate_key *)

\* C29: key derivation separates different calls: two calls whose sequences
\* of positional-argument string forms differ, or whose sets of keyword
\* name/value-string pairs differ, derive different keys, also when the
\* strings hold "|" or "=" (the digest taken to be free of collisions).
C29_KeySeparatesCalls ==
    \A i, j \in 1..Len(derived) :
        (/\ derived[i].key # None
         /\ derived[j].key # None
         /\ ~SameStrings(derived[i], derived[j]))
        => derived[i].key # derived[j].key

-----------------------------------------------------------------------------
(* Further properties of the cached decorator *)

\* C24: with keys that can always be derived, the operation under cached
\* runs only after a miss, whatever it returns, None included: each call
\* adds as much to the executions of the operation as to the misses of the
\* wrapper's cache, and no call both counts a hit and runs the operation.
C24_RunsOnlyAfterMiss ==
    [][IsKeyedCall =>
         /\ call_count' - call_count = caches'["w"].misses - caches["w"].misses
         /\ ~(caches'["w"].hits > caches["w"].hits /\ call_count' > call_count)
      ]_vars

\* C30: under composition the metrics recorded count the entries into the
\* instrumentation wrapper.  With monitor_performance around cached every
\* call, hit or miss, appends exactly one metric; with cached around
\* monitor_performance a call appends one metric for each run of the
\* operation, and a call that is a cache hit appends none.
C30_MetricsCountWrapperEntries ==
    [][last'.op = "call" =>
         LET appended == Len(monitor'.metrics) - Len(monitor.metrics)
             hits == monitor'.cache_hits - monitor.cache_hits
         IN  /\ comp = "monitor_cached" => appended = 1
             /\ comp = "cached_monitor" =>
                   /\ appended = call_count' - call_count
                   /\ hits > 0 => appended = 0
      ]_vars

=============================================================================
